---- MODULE Spec2Model ----
(***************************************************************************)
(* Model of the Express server of the Digital-Art-Gallery repository       *)
(* (src/server.js and its superset src/server_supabase_backup.js) together *)
(* with the database schema it talks to (src/unnamed/part_001) and the     *)
(* shared authentication script of its pages (src/unnamed/part_000).       *)
(*                                                                         *)
(* Strings are sequences of lexemes: a lexeme stands for a run of          *)
(* characters that no operation of the program splits (a scheme, a path    *)
(* segment, a separator, one half of a placeholder word).  The empty       *)
(* string is <<>>, concatenation is \o.                                    *)
(***************************************************************************)
EXTENDS Integers, Sequences, FiniteSets, TLC

\* ------------------------------------------------------------------ bounds
\* Requests received in all (Spec), by the delete route alone (SpecDelete) and
\* by the like route alone (SpecLike).
MaxRequests == 1
MaxDeletes == 2
MaxLikes == 2
\* In the browser (SpecBrowser): the calls of checkUserSession and the clicks
\* on the logout button besides the page load, the callbacks subscribed, and
\* the changes of the backend's auth state.
MaxCalls == 2
MaxListeners == 2
MaxAuthChanges == 1

\* ----------------------------------------------------------------- strings
\* JavaScript's undefined (an absent header, an unset environment variable).
Undefined == <<"<undefined>">>

\* JavaScript truthiness of a string-or-undefined value.
Truthy(s) == s /= Undefined /\ s /= <<>>

\* a || "" of lines 31, 38, 39, 104, 115.
OrEmpty(s) == IF Truthy(s) THEN s ELSE <<>>

\* String.prototype.trim.
RECURSIVE TrimLeft(_)
TrimLeft(s) == IF s /= <<>> /\ Head(s) = " " THEN TrimLeft(Tail(s)) ELSE s

RECURSIVE TrimRight(_)
TrimRight(s) ==
  IF s /= <<>> /\ s[Len(s)] = " " THEN TrimRight(SubSeq(s, 1, Len(s) - 1)) ELSE s

Trim(s) == TrimRight(TrimLeft(s))

\* Case folding of the lexemes the program compares without regard to case.
ToUpper(l) ==
  CASE l = "your_supabase" -> "YOUR_SUPABASE"
    [] l = "_url" -> "_URL"
    [] l = "_service_role_key" -> "_SERVICE_ROLE_KEY"
    [] OTHER -> l

ToLower(l) ==
  CASE l = "HTTPS" -> "https"
    [] l = "HTTP" -> "http"
    [] OTHER -> l

\* s contains pat as a contiguous run, starting at index i.
MatchAt(s, pat, i) ==
  /\ i + Len(pat) - 1 <= Len(s)
  /\ \A k \in 1..Len(pat) : s[i + k - 1] = pat[k]

Contains(s, pat) == \E i \in 1..Len(s) : MatchAt(s, pat, i)

\* -------------------------------------------------------------------- URLs
Separators == {"://", "/", "?", "#", " "}

\* Index of the first lexeme of s at or after i that lies in set, or Len(s)+1.
RECURSIVE FirstIn(_, _, _)
FirstIn(s, i, set) ==
  IF i > Len(s) THEN Len(s) + 1
  ELSE IF s[i] \in set THEN i ELSE FirstIn(s, i + 1, set)

\* The path segments of a raw path <<"/", seg, "/", seg, ...>>; an empty
\* segment (two adjacent slashes, or a trailing slash) is "".
RECURSIVE Segments(_)
Segments(p) ==
  IF p = <<>> THEN <<>>
  ELSE IF Len(p) = 1 THEN <<"">>
  ELSE IF p[2] = "/" THEN <<"">> \o Segments(Tail(p))
  ELSE <<p[2]>> \o Segments(SubSeq(p, 3, Len(p)))

\* The URL parser's removal of "." and ".." segments.
RECURSIVE DotFree(_, _)
DotFree(segs, acc) ==
  IF segs = <<>> THEN acc
  ELSE LET last == Len(segs) = 1 IN
    CASE Head(segs) = "." ->
           DotFree(Tail(segs), IF last THEN acc \o <<"">> ELSE acc)
      [] Head(segs) = ".." ->
           LET up == IF acc = <<>> THEN acc ELSE SubSeq(acc, 1, Len(acc) - 1)
           IN DotFree(Tail(segs), IF last THEN up \o <<"">> ELSE up)
      [] OTHER -> DotFree(Tail(segs), acc \o <<Head(segs)>>)

\* <<"/", seg, "/", seg, ...>> from segments; "" puts no lexeme.
RECURSIVE Joined(_)
Joined(segs) ==
  IF segs = <<>> THEN <<>>
  ELSE <<"/">> \o (IF Head(segs) = "" THEN <<>> ELSE <<Head(segs)>>)
       \o Joined(Tail(segs))

\* new URL(s): ok is FALSE where the constructor throws.  An absolute URL is
\* scheme "://" host path? ("?" query)? ("#" fragment)?, with leading and
\* trailing spaces stripped; protocol is the lower-cased scheme plus ":",
\* pathname the path with its dot segments removed ("/" when empty).
ParseURL(raw) ==
  LET s == Trim(raw)
      bad == [ok |-> FALSE, protocol |-> "", pathname |-> <<>>]
  IN IF Len(s) < 3 \/ s[1] \in Separators \/ s[2] /= "://" \/ s[3] \in Separators
     THEN bad
     ELSE LET hostEnd == FirstIn(s, 3, Separators)
              pathEnd == FirstIn(s, hostEnd, {"?", "#"})
              path == SubSeq(s, hostEnd, pathEnd - 1)
          IN IF \E k \in 1..Len(s) : s[k] = " " THEN bad
             ELSE [ok |-> TRUE,
                   protocol |-> ToLower(s[1]),
                   pathname |-> IF path = <<>> THEN <<"/">>
                                ELSE Joined(DotFree(Segments(path), <<>>))]

\* ------------------------------------------------------ credential gating
PlaceholderUrl == <<"YOUR_SUPABASE", "_URL">>
PlaceholderKey == <<"YOUR_SUPABASE", "_SERVICE_ROLE_KEY">>

\* /YOUR_SUPABASE_URL|YOUR_SUPABASE_SERVICE_ROLE_KEY/i.test(s)
HasPlaceholder(s) ==
  LET up == [k \in 1..Len(s) |-> ToUpper(s[k])]
  IN Contains(up, PlaceholderUrl) \/ Contains(up, PlaceholderKey)

isValidSupabase(url, key) ==
  IF ~Truthy(url) \/ ~Truthy(key) THEN FALSE
  ELSE LET u == ParseURL(url)
           hasPlaceholders == HasPlaceholder(url \o key)
       IN IF ~u.ok THEN FALSE
          ELSE (u.protocol = "http" \/ u.protocol = "https") /\ ~hasPlaceholders

\* --------------------------------------------------------------- the state
VARIABLES
  env,            \* process.env: SUPABASE_URL, SUPABASE_SERVICE_ROLE_KEY,
                  \* SUPABASE_ANON_KEY, ADMIN_API_KEY
  booted,         \* the module body of the server has run
  supabase,       \* the client handle is non-null
  artworks,       \* table public.artworks, by id
  artwork_likes,  \* table public.artwork_likes, a set of rows
  profiles,       \* table public.profiles, by id
  storage,        \* the object paths of bucket "artworks"
  nextId,         \* the next value of gen_random_uuid() for artwork_likes.id
  limit,          \* the number of requests the run receives at most
  arrived,        \* the number of requests received
  requests,       \* the handlers in flight, by arrival number
  last,           \* the handler that ended most recently, with its response
  sb,             \* part_000: the cached client, 0 for null, else its number
  clients,        \* the number of createClient calls made
  callbacks,      \* the number of sb.auth.onAuthStateChange registrations
  authStateListeners, \* part_000: the subscribed callbacks, in order
  localStorage,   \* the currentUser entry
  userDisplay,    \* what updateGlobalUI last showed
  session,        \* the backend's auth state: the signed-in user or "none"
  reported,       \* the auth state the backend reported last to the page
  pending,        \* the clients with an auth event not yet delivered
  tasks,          \* the async functions of the page in flight
  started,        \* the calls of checkUserSession and handleLogout made
  changes,        \* the changes of the auth state made outside the page
  loaded,         \* DOMContentLoaded has fired
  logoutBound,    \* the click listener of logoutBtn is attached
  navigated,      \* window.location.href has been assigned
  round           \* the last run of the auth-event callback

browser == <<sb, clients, callbacks, authStateListeners, localStorage,
             userDisplay, session, reported, pending, tasks, started, changes,
             loaded, logoutBound, navigated, round>>

server == <<env, booted, supabase, artworks, artwork_likes, profiles, storage,
            nextId, limit, arrived, requests, last>>

vars == <<server, browser>>

db == <<artworks, artwork_likes, profiles, storage, nextId>>

\* ---------------------------------------------------------------- inputs
Users == {"u1", "u2"}
ArtIds == {"a1", "a2"}
MissingId == "a9"
ParamIds == ArtIds \cup {MissingId}

\* The result of one awaited SDK call: a result, a returned { error }, or a
\* rejected promise (a network exception).
Outcomes == {"ok", "error", "throw"}

ValidUrl == <<"https", "://", "proj.supabase.co">>
ValidKey == <<"eyJ", "service">>
AnonKey == <<"eyJ", "anon">>
Secret == <<"s3cret">>

Prefix == <<"https", "://", "proj.supabase.co", "/", "storage", "/", "v1">>
Bucket == <<"/", "object", "/", "public", "/", "artworks", "/">>

ImageUrls ==
  { Undefined,                                          \* NULL column
    <<"a2.png">>,                                       \* not an absolute URL
    Prefix \o Bucket \o <<"a2.png">>,                   \* a stored object
    Prefix \o Bucket \o <<"u1", "/", "a2.png">>,        \* an object in a folder
    <<"https", "://", "cdn.example.com", "/", "img", "/", "a2.png">>,
    Prefix \o Bucket,                                   \* nothing after the bucket
    <<"https", "://", "h", "/", "view", "?">> \o Bucket \o <<"a2.png">>,
    Prefix \o <<"/", "object", "/", "public", "/", ".">> \o
      <<"/", "artworks", "/", "a2.png">> }              \* a dot segment

AdminHeaders == {Undefined, <<>>, Secret, <<"guess">>}

AuthHeaders ==
  { Undefined, <<"bearer ", "t1">>, <<"Bearer ", "t1">>, <<"Bearer ", "t2">>,
    <<"Bearer ", "bad">> }

Titles == {Undefined, <<>>, <<"Sunset">>}
Prices == {Undefined, <<>>, <<"10">>}
PostBodies == [title : Titles, price : Prices, image_url : {<<"a2.png">>}]

Usernames == {Undefined, <<"ann">>, <<"bob">>}
NoBody == [title |-> Undefined, price |-> Undefined, image_url |-> Undefined]

\* ----------------------------------------------------------- the database
NoArtwork == [present |-> FALSE, image_url |-> Undefined, likes |-> 0]
NoProfile == [present |-> FALSE, username |-> Undefined]

\* insert into artworks: title and artist_id are "not null" columns.
InsertArtworkOk(row) == row.title /= Undefined /\ row.artist_id /= Undefined

\* insert into artwork_likes: artwork_id references artworks(id), and
\* (user_id, artwork_id) is unique.
InsertLikeOk(user, art) ==
  /\ art \in ArtIds
  /\ artworks[art].present
  /\ ~\E l \in artwork_likes : l.user_id = user /\ l.artwork_id = art

increment_likes(artwork_id) ==
  IF artwork_id \in ArtIds /\ artworks[artwork_id].present
  THEN [artworks EXCEPT ![artwork_id].likes = @ + 1]
  ELSE artworks

decrement_likes(artwork_id) ==
  IF artwork_id \in ArtIds /\ artworks[artwork_id].present
  THEN [artworks EXCEPT ![artwork_id].likes = @ - 1]
  ELSE artworks

\* profiles.username is unique.
UpsertProfileOk(user, username) ==
  \/ username = Undefined
  \/ ~\E v \in Users \ {user} :
        profiles[v].present /\ profiles[v].username = username

\* supabase.auth.getUser(token): the user a token belongs to, or none.
TokenUser(token) ==
  CASE token = <<"t1">> -> "u1"
    [] token = <<"t2">> -> "u2"
    [] OTHER -> "none"

LikesOf(art) == IF art \in ArtIds THEN artworks[art].likes ELSE 0
LikeRows(user, art) ==
  {l \in artwork_likes : l.user_id = user /\ l.artwork_id = art}

\* ------------------------------------------------------------- requests
SUPABASE_URL == Trim(OrEmpty(env.SUPABASE_URL))
SUPABASE_SERVICE_ROLE_KEY == Trim(OrEmpty(env.SUPABASE_SERVICE_ROLE_KEY))
ADMIN_API_KEY == OrEmpty(env.ADMIN_API_KEY)

\* authHeader.startsWith('Bearer ') and authHeader.substring(7)
StartsWithBearer(h) == Len(h) >= 1 /\ h[1] = "Bearer "
Token(h) == Tail(h)

InFlight(r) == r.pc \notin {"done", "escaped"}

\* The user a request's Authorization header names, for the bookkeeping below.
HeaderUser(h) ==
  IF Truthy(h) /\ StartsWithBearer(h) THEN TokenUser(Token(h)) ELSE "none"

NoPair == [is |-> FALSE, first |-> "", likes |-> 0]

\* A request as it arrives.  calls lists the backend calls the handler has
\* issued; sent counts the responses written; alone says that no other request
\* was in flight at any time of this one; likesBefore/likedBefore and
\* likesAfter/likedAfter are the counter of the artwork and the presence of the
\* (user, artwork) like row when the request arrived and when it was answered;
\* pair is filled in when the handler ends (see Ended); image_url is the column
\* of the row the delete handler has read, wrote the id of the profile row an
\* upsert has written.
NewRequest(route, header, id, body) ==
  [route |-> route, header |-> header, id |-> id, body |-> body,
   pc |-> "start", user |-> "none", existingLike |-> 0, path |-> <<>>,
   calls |-> <<>>, status |-> 0, reply |-> "", sent |-> 0,
   alone |-> DOMAIN requests = {},
   likesBefore |-> LikesOf(id),
   likedBefore |-> LikeRows(HeaderUser(header), id) /= {},
   likesAfter |-> 0, likedAfter |-> FALSE, pair |-> NoPair,
   image_url |-> Undefined, wrote |-> "none"]

NoRequest ==
  [route |-> "none", header |-> Undefined, id |-> "", body |-> NoBody,
   pc |-> "none", user |-> "none", existingLike |-> 0, path |-> <<>>,
   calls |-> <<>>, status |-> 0, reply |-> "", sent |-> 0, alone |-> FALSE,
   likesBefore |-> 0, likedBefore |-> FALSE, likesAfter |-> 0,
   likedAfter |-> FALSE, pair |-> NoPair, image_url |-> Undefined,
   wrote |-> "none"]

Call(r, name, o) == [r EXCEPT !.calls = Append(@, [name |-> name, outcome |-> o])]

Called(r, name) == \E k \in 1..Len(r.calls) : r.calls[k].name = name

\* res.status(status).json(reply)
Respond(r, status, reply) ==
  [r EXCEPT !.pc = "done", !.status = status, !.reply = reply, !.sent = @ + 1]

\* A rejection that leaves the async handler: Express 4 does not await the
\* handler, so the rejection reaches process.on('unhandledRejection') and the
\* request is never answered.
Escape(r) == [r EXCEPT !.pc = "escaped"]

GetArtworksRoute == "GET /api/artworks"
PostArtworkRoute == "POST /api/artworks"
DeleteRoute == "DELETE /api/artworks/:id"
GetProfileRoute == "GET /api/profile/:userId"
PutProfileRoute == "PUT /api/profile"
LikeRoute == "POST /api/artworks/:id/like"

\* The record kept of a handler that has ended.  When it and the handler that
\* ended before it are two answered like requests of one user for one artwork
\* that exists,
\* neither overlapping any other request and the first one arriving with no
\* like row, pair holds the first one's reply and the counter it arrived at.
Ended(r) ==
  [r EXCEPT !.pair =
     IF /\ r.route = LikeRoute /\ last.route = LikeRoute
        /\ r.alone /\ last.alone
        /\ r.status = 200 /\ last.status = 200
        /\ r.user = last.user /\ r.id = last.id
        /\ r.id \in ArtIds /\ artworks[r.id].present
        /\ ~last.likedBefore
     THEN [is |-> TRUE, first |-> last.reply, likes |-> last.likesBefore]
     ELSE NoPair]

Overlapped == [k \in DOMAIN requests |-> [requests[k] EXCEPT !.alone = FALSE]]

Arrive(r) ==
  /\ booted
  /\ arrived < limit
  /\ arrived' = arrived + 1
  /\ limit' = limit
  /\ UNCHANGED browser
  /\ IF InFlight(r)
     THEN /\ requests' = [k \in DOMAIN requests \cup {arrived + 1} |->
                            IF k = arrived + 1 THEN r ELSE Overlapped[k]]
          /\ last' = last
     ELSE /\ requests' = Overlapped
          /\ last' = Ended(r)

Resume(i, r) ==
  /\ UNCHANGED <<limit, arrived, browser>>
  /\ IF InFlight(r)
     THEN /\ requests' = [requests EXCEPT ![i] = r]
          /\ last' = last
     ELSE /\ requests' = [k \in DOMAIN requests \ {i} |-> requests[k]]
          /\ last' = Ended(r)

\* ------------------------------------------------------------ module load
Boot ==
  /\ ~booted
  /\ booted' = TRUE
  /\ supabase' = isValidSupabase(SUPABASE_URL, SUPABASE_SERVICE_ROLE_KEY)
  /\ UNCHANGED <<env, db, limit, arrived, requests, last, browser>>

\* ------------------------------------------------------ GET /api/artworks
\* Variant: the unconfigured list route answering like the other routes.
GetArtworksUnconfigured_Error(r) == Respond(r, 500, "Database not configured")

\* if (!supabase) return res.json([])
GetArtworksUnconfigured(r) == Respond(r, 200, "[]")

GetArtworks ==
  \E o \in Outcomes :
    LET r0 == NewRequest(GetArtworksRoute, Undefined, "", NoBody)
        c == Call(r0, "artworks.select", o)
        r1 == IF ~supabase THEN GetArtworksUnconfigured(r0)
              ELSE CASE o = "ok" ->
                          Respond(c, 200, IF \E a \in ArtIds : artworks[a].present
                                          THEN "rows" ELSE "[]")
                     [] o = "error" -> Respond(c, 500, "Cloud database error")
                     [] o = "throw" -> Respond(c, 503, "Backend unreachable")
    IN /\ Arrive(r1)
       /\ UNCHANGED <<env, booted, supabase, db>>

\* ----------------------------------------------------- POST /api/artworks
\* Variant: rejecting only a body that lacks both fields.
MissingFields_Both(body) == ~Truthy(body.title) /\ ~Truthy(body.price)

\* !title || !price
MissingFields(body) == ~Truthy(body.title) \/ ~Truthy(body.price)

PostArtwork ==
  \E body \in PostBodies, o \in Outcomes :
    LET r0 == NewRequest(PostArtworkRoute, Undefined, "", body)
        c == Call(r0, "artworks.insert", o)
        row == [title |-> body.title, price |-> body.price,
                image_url |-> body.image_url, artist_id |-> Undefined]
        free == {a \in ArtIds : ~artworks[a].present}
        inserted == o = "ok" /\ InsertArtworkOk(row) /\ free /= {}
        r1 == IF ~supabase THEN Respond(r0, 500, "Cloud database not configured")
              ELSE IF MissingFields(body)
              THEN Respond(r0, 400, "title and price required")
              ELSE CASE o = "throw" -> Respond(c, 503, "Backend unreachable")
                     [] inserted -> Respond(c, 200, "row")
                     [] OTHER -> Respond(c, 500, "Cloud insert failed")
    IN /\ Arrive(r1)
       /\ artworks' =
            IF supabase /\ ~MissingFields(body) /\ inserted
            THEN [artworks EXCEPT ![CHOOSE a \in free : TRUE] =
                    [present |-> TRUE, image_url |-> body.image_url, likes |-> 0]]
            ELSE artworks
       /\ UNCHANGED <<env, booted, supabase, artwork_likes, profiles, storage, nextId>>

\* ----------------------------------------------- DELETE /api/artworks/:id
\* Variant: comparing the header without refusing an unset server key.
Forbidden_CompareOnly(adminKeyHeader) == adminKeyHeader /= ADMIN_API_KEY

\* !ADMIN_API_KEY || adminKeyHeader !== ADMIN_API_KEY
Forbidden(adminKeyHeader) ==
  ~Truthy(ADMIN_API_KEY) \/ adminKeyHeader /= ADMIN_API_KEY

\* Variant: matching the pattern against the whole URL instead of its pathname.
StoragePath_WholeUrl(image_url) ==
  LET url == ParseURL(OrEmpty(image_url))
      p == Trim(OrEmpty(image_url))
      hits == {i \in 1..Len(p) : MatchAt(p, Bucket, i) /\ i + Len(Bucket) <= Len(p)}
  IN IF ~url.ok \/ hits = {} THEN <<>>
     ELSE LET i == CHOOSE j \in hits : \A k \in hits : j <= k
          IN SubSeq(p, i + Len(Bucket), Len(p))

\* url.pathname.match(/\/object\/public\/artworks\/(.+)$/): the capture of the
\* leftmost match, <<>> when new URL throws or nothing matches.
StoragePath(image_url) ==
  LET url == ParseURL(OrEmpty(image_url))
      p == url.pathname
      hits == {i \in 1..Len(p) : MatchAt(p, Bucket, i) /\ i + Len(Bucket) <= Len(p)}
  IN IF ~url.ok \/ hits = {} THEN <<>>
     ELSE LET i == CHOOSE j \in hits : \A k \in hits : j <= k
          IN SubSeq(p, i + Len(Bucket), Len(p))

DeleteStart ==
  \E h \in AdminHeaders, id \in ParamIds, o \in Outcomes :
    LET r0 == NewRequest(DeleteRoute, h, id, NoBody)
        c == Call(r0, "artworks.select", o)
        row == IF id \in ArtIds THEN artworks[id] ELSE NoArtwork
        path == StoragePath(row.image_url)
        r1 == IF ~supabase THEN Respond(r0, 500, "Database not configured")
              ELSE IF Forbidden(h) THEN Respond(r0, 403, "Forbidden")
              ELSE CASE o = "throw" -> Escape(c)
                     [] o = "error" -> Respond(c, 500, "Failed to read artwork")
                     [] ~row.present -> Respond(c, 404, "Not found")
                     [] OTHER -> [c EXCEPT !.path = path,
                                   !.image_url = row.image_url,
                                   !.pc = IF path /= <<>> THEN "remove" ELSE "delete"]
    IN /\ Arrive(r1)
       /\ UNCHANGED <<env, booted, supabase, db>>

\* Variant: the storage removal outside any try block, so that a rejected
\* removal leaves the handler before the row delete.
DeleteRemove_Propagates(i) ==
  /\ requests[i].pc = "remove"
  /\ \E o \in Outcomes :
       /\ storage' = IF o = "ok" THEN storage \ {requests[i].path} ELSE storage
       /\ Resume(i, IF o = "throw"
                    THEN Escape(Call(requests[i], "storage.remove", o))
                    ELSE [Call(requests[i], "storage.remove", o) EXCEPT !.pc = "delete"])
  /\ UNCHANGED <<env, booted, supabase, artworks, artwork_likes, profiles, nextId>>

\* await supabase.storage.from("artworks").remove([path]), inside try {} catch {}
DeleteRemove(i) ==
  /\ requests[i].pc = "remove"
  /\ \E o \in Outcomes :
       /\ storage' = IF o = "ok" THEN storage \ {requests[i].path} ELSE storage
       /\ Resume(i, [Call(requests[i], "storage.remove", o) EXCEPT !.pc = "delete"])
  /\ UNCHANGED <<env, booted, supabase, artworks, artwork_likes, profiles, nextId>>

\* await supabase.from("artworks").delete().eq("id", id); artwork_likes rows
\* go with the artwork ("on delete cascade").
DeleteRow(i) ==
  /\ requests[i].pc = "delete"
  /\ \E o \in Outcomes :
       LET r == requests[i]
           c == Call(r, "artworks.delete", o)
       IN /\ artworks' = IF o = "ok" THEN [artworks EXCEPT ![r.id] = NoArtwork]
                         ELSE artworks
          /\ artwork_likes' = IF o = "ok"
                              THEN {l \in artwork_likes : l.artwork_id /= r.id}
                              ELSE artwork_likes
          /\ Resume(i, CASE o = "ok" -> Respond(c, 200, "ok")
                         [] o = "error" -> Respond(c, 500, "Failed to delete artwork")
                         [] o = "throw" -> Escape(c))
  /\ UNCHANGED <<env, booted, supabase, profiles, storage, nextId>>

\* ------------------------------------------------------------- profiles
\* Variant: accepting any Authorization header that is present.
Unauthorized_PresenceOnly(authHeader) == ~Truthy(authHeader)

\* !authHeader || !authHeader.startsWith('Bearer ')
Unauthorized(authHeader) == ~Truthy(authHeader) \/ ~StartsWithBearer(authHeader)

ProfileUsers == Users \cup {"u9"}

\* The two selects of the handler read and write nothing; they are one step.
GetProfile ==
  \E userId \in ProfileUsers, o1 \in Outcomes, o2 \in Outcomes :
    LET r0 == NewRequest(GetProfileRoute, Undefined, userId, NoBody)
        c1 == Call(r0, "profiles.select", o1)
        c2 == Call(c1, "artworks.select", o2)
        found == userId \in Users /\ profiles[userId].present
        r1 == IF ~supabase THEN Respond(r0, 500, "Database not configured")
              ELSE CASE o1 = "throw" -> Respond(c1, 503, "Backend unreachable")
                     [] o1 = "error" \/ ~found -> Respond(c1, 404, "Profile not found")
                     [] o2 = "throw" -> Respond(c2, 503, "Backend unreachable")
                     [] o2 = "error" -> Respond(c2, 500, "Failed to fetch artworks")
                     [] OTHER -> Respond(c2, 200, "profile")
    IN /\ Arrive(r1)
       /\ UNCHANGED <<env, booted, supabase, db>>

\* Variant: the handler without its if (!supabase) line.
Authenticate_NoGate(r0, o, next) ==
  LET h == r0.header
      c == Call(r0, "auth.getUser", o)
      user == TokenUser(Token(h))
  IN IF Unauthorized(h) THEN Respond(r0, 401, "Unauthorized")
     ELSE CASE o = "throw" -> Escape(c)
            [] o = "error" \/ user = "none" -> Respond(c, 401, "Invalid token")
            [] OTHER -> [c EXCEPT !.user = user, !.pc = next]

\* The handler up to and including await supabase.auth.getUser(token), which
\* stands outside the handler's try block.
Authenticate(r0, o, next) ==
  LET h == r0.header
      c == Call(r0, "auth.getUser", o)
      user == TokenUser(Token(h))
  IN IF ~supabase THEN Respond(r0, 500, "Database not configured")
     ELSE IF Unauthorized(h) THEN Respond(r0, 401, "Unauthorized")
     ELSE CASE o = "throw" -> Escape(c)
            [] o = "error" \/ user = "none" -> Respond(c, 401, "Invalid token")
            [] OTHER -> [c EXCEPT !.user = user, !.pc = next]

PutProfileStart ==
  \E h \in AuthHeaders, username \in Usernames, o \in Outcomes :
    /\ Arrive(Authenticate(
         NewRequest(PutProfileRoute, h, "", [username |-> username]), o, "upsert"))
    /\ UNCHANGED <<env, booted, supabase, db>>

\* The id of the row the upsert writes.
UpsertId(r) == r.user

ProfileUpsert(i) ==
  /\ requests[i].pc = "upsert"
  /\ \E o \in Outcomes :
       LET r == requests[i]
           c == Call(r, "profiles.upsert", o)
           id == UpsertId(r)
           name == r.body.username
           written == o = "ok" /\ UpsertProfileOk(id, name)
       IN /\ profiles' =
               IF written
               THEN [profiles EXCEPT ![id] =
                       [present |-> TRUE,
                        username |-> IF name = Undefined THEN @.username ELSE name]]
               ELSE profiles
          /\ Resume(i, CASE o = "throw" -> Respond(c, 503, "Backend unreachable")
                         [] written -> [Respond(c, 200, "profile") EXCEPT !.wrote = id]
                         [] OTHER -> Respond(c, 500, "Failed to update profile"))
  /\ UNCHANGED <<env, booted, supabase, artworks, artwork_likes, storage, nextId>>

\* ------------------------------------------- POST /api/artworks/:id/like
LikeStart ==
  \E h \in AuthHeaders, id \in ParamIds, o \in Outcomes :
    /\ Arrive(Authenticate(
         NewRequest(LikeRoute, h, id, NoBody), o, "select"))
    /\ UNCHANGED <<env, booted, supabase, db>>

ToggleFailed(r) == Respond(r, 500, "Failed to toggle like")

\* const { data: existingLike } = await ...select("*")...single(): the error
\* of the call is not read, so a failed select reads as "not liked".
LikeSelect(i) ==
  /\ requests[i].pc = "select"
  /\ \E o \in Outcomes :
       LET r == requests[i]
           c == Call(r, "artwork_likes.select", o)
           rows == LikeRows(r.user, r.id)
           existingLike == IF o = "ok" /\ rows /= {}
                           THEN (CHOOSE l \in rows : TRUE).id ELSE 0
       IN Resume(i, IF o = "throw" THEN ToggleFailed(c)
                    ELSE [c EXCEPT !.existingLike = existingLike,
                           !.pc = IF existingLike /= 0 THEN "unlike" ELSE "like"])
  /\ UNCHANGED <<env, booted, supabase, db>>

\* await supabase.from("artwork_likes").delete().eq("id", existingLike.id)
LikeDelete(i) ==
  /\ requests[i].pc = "unlike"
  /\ \E o \in Outcomes :
       LET r == requests[i]
           c == Call(r, "artwork_likes.delete", o)
       IN /\ artwork_likes' = IF o = "ok"
                              THEN {l \in artwork_likes : l.id /= r.existingLike}
                              ELSE artwork_likes
          /\ Resume(i, IF o = "throw" THEN ToggleFailed(c)
                       ELSE [c EXCEPT !.pc = "decrement"])
  /\ UNCHANGED <<env, booted, supabase, artworks, profiles, storage, nextId>>

\* await supabase.from("artwork_likes").insert({ user_id, artwork_id })
LikeInsert(i) ==
  /\ requests[i].pc = "like"
  /\ \E o \in Outcomes :
       LET r == requests[i]
           c == Call(r, "artwork_likes.insert", o)
           inserted == o = "ok" /\ InsertLikeOk(r.user, r.id)
       IN /\ artwork_likes' =
               IF inserted
               THEN artwork_likes \cup
                      {[id |-> nextId, user_id |-> r.user, artwork_id |-> r.id]}
               ELSE artwork_likes
          /\ nextId' = IF inserted THEN nextId + 1 ELSE nextId
          /\ Resume(i, IF o = "throw" THEN ToggleFailed(c)
                       ELSE [c EXCEPT !.pc = "increment"])
  /\ UNCHANGED <<env, booted, supabase, artworks, profiles, storage>>

\* await supabase.rpc("increment_likes" | "decrement_likes", { artwork_id }),
\* then res.json({ liked })
LikeRpc(i) ==
  /\ requests[i].pc \in {"increment", "decrement"}
  /\ \E o \in Outcomes :
       LET r == requests[i]
           up == r.pc = "increment"
           c == Call(r, IF up THEN "rpc.increment_likes" ELSE "rpc.decrement_likes", o)
       IN /\ artworks' = IF o /= "ok" THEN artworks
                         ELSE IF up THEN increment_likes(r.id)
                         ELSE decrement_likes(r.id)
          /\ Resume(i, IF o = "throw" THEN ToggleFailed(c)
                       ELSE [Respond(c, 200, IF up THEN "liked:true" ELSE "liked:false")
                               EXCEPT !.likesAfter =
                                        IF r.id \in ArtIds THEN artworks'[r.id].likes ELSE 0,
                                      !.likedAfter = LikeRows(r.user, r.id) /= {}])
  /\ UNCHANGED <<env, booted, supabase, artwork_likes, profiles, storage, nextId>>

\* ------------------------------------------------ the pages' auth script
\* The body of GET /api/public-config.
PublicConfig ==
  [supabaseUrl |-> Trim(OrEmpty(env.SUPABASE_URL)),
   supabaseAnonKey |-> Trim(OrEmpty(env.SUPABASE_ANON_KEY))]

\* cfg.supabaseUrl && cfg.supabaseAnonKey && !/YOUR_SUPABASE/i.test(cfg.supabaseUrl)
ConfigUsable(cfg) ==
  /\ Truthy(cfg.supabaseUrl) /\ Truthy(cfg.supabaseAnonKey)
  /\ ~Contains([k \in 1..Len(cfg.supabaseUrl) |-> ToUpper(cfg.supabaseUrl[k])],
               <<"YOUR_SUPABASE">>)

SessionUsers == {"u1"}

\* localStorage.getItem('currentUser') of an absent entry, and the entry as the
\* auth-event callback writes it (name, email, id) and as checkUserSession
\* writes it (name, email); name is the email where the metadata has none.
Absent == [email |-> "", id |-> ""]
EventUser(s) == [email |-> s, id |-> s]
CheckedUser(s) == [email |-> s, id |-> ""]

\* updateGlobalUI(user): the text of userDisplay.
updateGlobalUI(user) == IF user /= Absent THEN user.email ELSE "Sign In"

\* authStateListeners.forEach(callback => callback(user, session)): the
\* callbacks invoked, in order; an exception thrown by one ends the loop.
forEach_Reversed(listeners) ==
  [k \in 1..Len(listeners) |-> listeners[Len(listeners) + 1 - k]]

forEach(listeners) ==
  LET throwers == {k \in 1..Len(listeners) : listeners[k].throws}
      stop == IF throwers = {} THEN Len(listeners)
              ELSE CHOOSE k \in throwers : \A j \in throwers : k <= j
  IN SubSeq(listeners, 1, stop)

NoRound == [is |-> FALSE, before |-> <<>>, invoked |-> <<>>]

\* The callback given to sb.auth.onAuthStateChange, invoked with session s.
OnAuthEvent(s) ==
  /\ localStorage' = IF s /= "none" THEN EventUser(s) ELSE Absent
  /\ userDisplay' = updateGlobalUI(IF s /= "none" THEN EventUser(s) ELSE Absent)
  /\ round' = [is |-> TRUE, before |-> authStateListeners,
               invoked |-> forEach(authStateListeners)]
  /\ reported' = s

\* An async function of the page: op is the function called (the
\* DOMContentLoaded handler, checkUserSession or handleLogout), stage the part
\* of it that runs (the handler's own "await initSupabase()", checkUserSession,
\* handleLogout), pc the call it awaits, client the client initSupabase
\* returned to it.
NewTask(op, stage) == [op |-> op, stage |-> stage, pc |-> "call", client |-> 0]

Waiting(t) == t.pc \in {"config", "getSession", "signOut"}

\* initSupabase has returned client (0 for null) to t while sb holds sbNow.
\* The handler of DOMContentLoaded drops the result and calls checkUserSession,
\* whose initSupabase returns sb at once when it is set.
Returned(t, client, sbNow) ==
  CASE t.stage = "init" ->
         IF sbNow /= 0
         THEN [t EXCEPT !.stage = "check", !.client = sbNow, !.pc = "getSession"]
         ELSE [t EXCEPT !.stage = "check", !.pc = "config"]
    [] t.stage = "check" ->
         IF client = 0 THEN [t EXCEPT !.pc = "return"]
         ELSE [t EXCEPT !.client = client, !.pc = "getSession"]
    [] t.stage = "logout" ->
         IF client = 0 THEN [t EXCEPT !.pc = "leave"]
         ELSE [t EXCEPT !.client = client, !.pc = "signOut"]

\* initSupabase(): if (sb) return sb; else await fetch(...).
Enter(t, sbNow) ==
  IF sbNow /= 0 THEN Returned(t, sbNow, sbNow) ELSE [t EXCEPT !.pc = "config"]

Settle(i, t) ==
  tasks' = [k \in (DOMAIN tasks \cup {i}) \ (IF Waiting(t) THEN {} ELSE {i}) |->
              IF k = i THEN t ELSE tasks[k]]

\* document.addEventListener('DOMContentLoaded', ...) up to its first await.
DOMContentLoaded ==
  /\ ~loaded /\ ~navigated
  /\ loaded' = TRUE
  /\ userDisplay' = updateGlobalUI(localStorage)
  /\ Settle(0, Enter(NewTask("load", "init"), sb))
  /\ UNCHANGED <<sb, clients, callbacks, authStateListeners, localStorage,
                 session, reported, pending, started, changes, logoutBound,
                 navigated, round, server>>

\* A page script calls checkUserSession().
checkUserSession ==
  /\ ~navigated /\ started < MaxCalls
  /\ started' = started + 1
  /\ Settle(started + 1, Enter(NewTask("checkUserSession", "check"), sb))
  /\ UNCHANGED <<sb, clients, callbacks, authStateListeners, localStorage,
                 userDisplay, session, reported, pending, changes, loaded,
                 logoutBound, navigated, round, server>>

\* A click on logoutBtn: handleLogout() up to its first await.
handleLogout ==
  /\ logoutBound /\ ~navigated /\ started < MaxCalls
  /\ started' = started + 1
  /\ Settle(started + 1, Enter(NewTask("handleLogout", "logout"), sb))
  /\ UNCHANGED <<sb, clients, callbacks, authStateListeners, localStorage,
                 userDisplay, session, reported, pending, changes, loaded,
                 logoutBound, navigated, round, server>>

\* initSupabase from the answer of fetch (and cfgRes.json()) on: a usable
\* config creates a client, stores it in sb and registers the auth callback,
\* to which the client will deliver its first event; anything else returns
\* null.  The caller goes on in the same step: checkUserSession returns null
\* without a client, handleLogout removes the entry and leaves the page.
initSupabase(i) ==
  /\ tasks[i].pc = "config"
  /\ \E o \in Outcomes :
       LET made == o = "ok" /\ ConfigUsable(PublicConfig)
           c == clients + 1
           t == IF made THEN Returned(tasks[i], c, c)
                ELSE Returned(tasks[i], 0, sb)
       IN /\ sb' = IF made THEN c ELSE sb
          /\ clients' = IF made THEN c ELSE clients
          /\ callbacks' = IF made THEN callbacks + 1 ELSE callbacks
          /\ pending' = IF made THEN pending \cup {c} ELSE pending
          /\ localStorage' = IF t.pc = "leave" THEN Absent ELSE localStorage
          /\ navigated' = (navigated \/ t.pc = "leave")
          /\ userDisplay' = IF t.pc = "return" /\ t.op = "load"
                            THEN updateGlobalUI(Absent) ELSE userDisplay
          /\ logoutBound' = (logoutBound \/ (t.pc = "return" /\ t.op = "load"))
          /\ Settle(i, t)
  /\ UNCHANGED <<authStateListeners, session, reported, started, changes,
                 loaded, round, server>>

\* checkUserSession from the answer of supabase.auth.getSession() on.  The
\* session is read when the call resolves and the continuation runs in the
\* same turn of the event loop.  In the DOMContentLoaded handler the result is
\* shown and the logout button is bound.
getSession(i) ==
  /\ tasks[i].pc = "getSession"
  /\ \E o \in Outcomes :
       LET t == tasks[i]
           user == IF o = "ok" /\ session /= "none"
                   THEN CheckedUser(session) ELSE Absent
       IN /\ localStorage' = user
          /\ reported' = IF o = "ok" THEN session ELSE reported
          /\ userDisplay' = IF t.op = "load" THEN updateGlobalUI(user)
                            ELSE userDisplay
          /\ logoutBound' = (logoutBound \/ t.op = "load")
          /\ Settle(i, [t EXCEPT !.pc = "done"])
  /\ UNCHANGED <<sb, clients, callbacks, authStateListeners, session, pending,
                 started, changes, loaded, navigated, round, server>>

\* handleLogout from the answer of supabase.auth.signOut() on.  A sign-out
\* that succeeds ends the session, runs the callback of the client it was
\* called on before it resolves, and leaves an event for every other client.
\* A rejected signOut leaves handleLogout before the entry is removed.
signOut(i) ==
  /\ tasks[i].pc = "signOut"
  /\ \E o \in Outcomes :
       LET t == tasks[i]
       IN /\ session' = IF o = "ok" THEN "none" ELSE session
          /\ pending' = IF o = "ok" THEN pending \cup ((1..clients) \ {t.client})
                        ELSE pending
          /\ CASE o = "ok" -> OnAuthEvent("none")
               [] o = "error" -> /\ localStorage' = Absent
                                 /\ UNCHANGED <<userDisplay, round, reported>>
               [] o = "throw" ->
                    UNCHANGED <<localStorage, userDisplay, round, reported>>
          /\ navigated' = (navigated \/ o /= "throw")
          /\ Settle(i, [t EXCEPT !.pc = IF o = "throw" THEN "escaped" ELSE "done"])
  /\ UNCHANGED <<sb, clients, callbacks, authStateListeners, started, changes,
                 loaded, logoutBound, server>>

\* The auth state changes outside these functions (a sign-in form, another
\* tab, an expired session): every client has an event to deliver.
AuthChange ==
  /\ changes < MaxAuthChanges
  /\ changes' = changes + 1
  /\ \E s \in (SessionUsers \cup {"none"}) \ {session} : session' = s
  /\ pending' = pending \cup (1..clients)
  /\ UNCHANGED <<sb, clients, callbacks, authStateListeners, localStorage,
                 userDisplay, reported, tasks, started, loaded, logoutBound,
                 navigated, round, server>>

\* Client c runs its auth callback with the current session.
AuthEvent(c) ==
  /\ c \in pending
  /\ pending' = pending \ {c}
  /\ OnAuthEvent(session)
  /\ UNCHANGED <<sb, clients, callbacks, authStateListeners, session, tasks,
                 started, changes, loaded, logoutBound, navigated, server>>

\* onAuthStateChange(callback) called by a page script; the callback is one
\* that returns or one that throws, and is called at once with the cached user
\* when there is one.
onAuthStateChange(throws) ==
  /\ ~navigated /\ Len(authStateListeners) < MaxListeners
  /\ authStateListeners' =
       Append(authStateListeners,
              [id |-> Len(authStateListeners) + 1, throws |-> throws,
               primed |-> localStorage /= Absent])
  /\ UNCHANGED <<sb, clients, callbacks, localStorage, userDisplay, session,
                 reported, pending, tasks, started, changes, loaded,
                 logoutBound, navigated, round, server>>

\* The page before anything has run, with the entry and the session the
\* previous page left.
NoPage(entry, s) ==
  /\ sb = 0 /\ clients = 0 /\ callbacks = 0
  /\ authStateListeners = <<>>
  /\ localStorage = entry
  /\ userDisplay = "Sign In"
  /\ session = s
  /\ reported = "nothing"
  /\ pending = {}
  /\ tasks = <<>>
  /\ started = 0 /\ changes = 0
  /\ loaded = FALSE /\ logoutBound = FALSE /\ navigated = FALSE
  /\ round = NoRound


\* ------------------------------------------------------ the specification
SupabaseUrls ==
  { Undefined, <<>>, <<" ">>, ValidUrl, <<" ">> \o ValidUrl \o <<" ">>,
    <<"http", "://", "localhost">>, <<"HTTPS", "://", "proj.supabase.co">>,
    <<"ftp", "://", "proj.supabase.co">>, <<"proj.supabase.co">>,
    <<"YOUR_SUPABASE", "_URL">>,
    <<"https", "://", "your_supabase", "_url">>,
    <<"https", "://", "proj.supabase.co", "/", "YOUR_SUPABASE">> }

SupabaseKeys ==
  { Undefined, <<>>, <<" ">>, ValidKey, ValidKey \o <<" ">>,
    <<"YOUR_SUPABASE", "_SERVICE_ROLE_KEY">>,
    <<"your_supabase", "_service_role_key">>,
    <<"eyJ", "YOUR_SUPABASE", "_URL">>,
    <<"_URL", "eyJ">>, <<"_SERVICE_ROLE_KEY">> }

InitDb(image_url) ==
  /\ artworks =
       [a \in ArtIds |->
          IF a = "a1"
          THEN [present |-> TRUE, image_url |-> Prefix \o Bucket \o <<"a1.png">>,
                likes |-> 1]
          ELSE [present |-> TRUE, image_url |-> image_url, likes |-> 0]]
  /\ artwork_likes = {[id |-> 1, user_id |-> "u1", artwork_id |-> "a1"]}
  /\ nextId = 2
  /\ profiles = [u \in Users |->
                   IF u = "u1" THEN [present |-> TRUE, username |-> <<"ann">>]
                   ELSE NoProfile]
  /\ storage = {<<"a1.png">>, <<"a2.png">>, <<"u1", "/", "a2.png">>}

InitWith(urls, keys, adminKeys, image_urls, max) ==
  /\ env \in [SUPABASE_URL : urls, SUPABASE_SERVICE_ROLE_KEY : keys,
              SUPABASE_ANON_KEY : {AnonKey}, ADMIN_API_KEY : adminKeys]
  /\ booted = FALSE
  /\ supabase = FALSE
  /\ \E image_url \in image_urls : InitDb(image_url)
  /\ limit = max
  /\ arrived = 0
  /\ requests = <<>>
  /\ last = NoRequest
  /\ NoPage(Absent, "none")

Init ==
  InitWith({ValidUrl, Undefined, PlaceholderUrl}, {ValidKey}, {Undefined, Secret},
           {Prefix \o Bucket \o <<"a2.png">>}, MaxRequests)

Next ==
  \/ Boot
  \/ GetArtworks
  \/ PostArtwork
  \/ DeleteStart
  \/ \E i \in DOMAIN requests : DeleteRemove(i)
  \/ \E i \in DOMAIN requests : DeleteRow(i)
  \/ GetProfile
  \/ PutProfileStart
  \/ \E i \in DOMAIN requests : ProfileUpsert(i)
  \/ LikeStart
  \/ \E i \in DOMAIN requests : LikeSelect(i)
  \/ \E i \in DOMAIN requests : LikeDelete(i)
  \/ \E i \in DOMAIN requests : LikeInsert(i)
  \/ \E i \in DOMAIN requests : LikeRpc(i)

Spec == Init /\ [][Next]_vars

\* The delete route alone, over every kind of image_url.
InitDelete ==
  InitWith({ValidUrl, Undefined}, {ValidKey}, {Undefined, Secret}, ImageUrls,
           MaxDeletes)

NextDelete ==
  \/ Boot
  \/ DeleteStart
  \/ \E i \in DOMAIN requests : DeleteRemove(i)
  \/ \E i \in DOMAIN requests : DeleteRow(i)

SpecDelete == InitDelete /\ [][NextDelete]_vars

\* The like route alone.
InitLike ==
  InitWith({ValidUrl}, {ValidKey}, {Secret}, {Prefix \o Bucket \o <<"a2.png">>},
           MaxLikes)

NextLike ==
  \/ Boot
  \/ LikeStart
  \/ \E i \in DOMAIN requests : LikeSelect(i)
  \/ \E i \in DOMAIN requests : LikeDelete(i)
  \/ \E i \in DOMAIN requests : LikeInsert(i)
  \/ \E i \in DOMAIN requests : LikeRpc(i)

SpecLike == InitLike /\ [][NextLike]_vars

\* The credential gate alone, over every pair of configured values.
InitConfig == InitWith(SupabaseUrls, SupabaseKeys, {Undefined}, {Undefined}, 0)

NextConfig == Boot

SpecConfig == InitConfig /\ [][NextConfig]_vars

\* The pages' auth script alone, against every public config of the server.
InitBrowser ==
  /\ env \in [SUPABASE_URL : {ValidUrl, PlaceholderUrl},
              SUPABASE_SERVICE_ROLE_KEY : {ValidKey},
              SUPABASE_ANON_KEY : {AnonKey, Undefined},
              ADMIN_API_KEY : {Undefined}]
  /\ booted = FALSE
  /\ supabase = FALSE
  /\ InitDb(Undefined)
  /\ limit = 0
  /\ arrived = 0
  /\ requests = <<>>
  /\ last = NoRequest
  /\ \E entry \in {Absent, EventUser("u1")}, s \in SessionUsers \cup {"none"} :
       NoPage(entry, s)

NextBrowser ==
  \/ DOMContentLoaded
  \/ checkUserSession
  \/ handleLogout
  \/ \E i \in DOMAIN tasks : initSupabase(i)
  \/ \E i \in DOMAIN tasks : getSession(i)
  \/ \E i \in DOMAIN tasks : signOut(i)
  \/ AuthChange
  \/ \E c \in pending : AuthEvent(c)
  \/ \E throws \in BOOLEAN : onAuthStateChange(throws)

SpecBrowser == InitBrowser /\ [][NextBrowser]_vars

\* The page load, the subscriptions and the auth events alone.
NextListeners ==
  \/ DOMContentLoaded
  \/ \E i \in DOMAIN tasks : initSupabase(i)
  \/ \E i \in DOMAIN tasks : getSession(i)
  \/ AuthChange
  \/ \E c \in pending : AuthEvent(c)
  \/ \E throws \in BOOLEAN : onAuthStateChange(throws)

SpecListeners == InitBrowser /\ [][NextListeners]_vars

\* ============================================================ properties
\* Every handler the state knows: those in flight and the one that ended last.
Handlers ==
  {requests[k] : k \in DOMAIN requests} \cup
  (IF last.route = "none" THEN {} ELSE {last})

Terminated(r) == r.pc \in {"done", "escaped"}

LastOutcome(r) == r.calls[Len(r.calls)].outcome

\* --- C1 -------------------------------------------------------------------
\* The x-admin-key header is absent or differs from the server's key, or the
\* server has no key.
KeyRefused(h) ==
  \/ h = Undefined
  \/ OrEmpty(env.ADMIN_API_KEY) = <<>>
  \/ h /= env.ADMIN_API_KEY

Removals(r) == Called(r, "storage.remove") \/ Called(r, "artworks.delete")

\* C1 as stated: every delete request with a refused admin key is answered 403
\* and removes neither a row nor a storage object.
C1_AsClaimed ==
  \A r \in Handlers :
    (r.route = DeleteRoute /\ KeyRefused(r.header)) =>
      r.pc = "done" /\ r.status = 403 /\ ~Removals(r)

\* C1, amended: a delete request with a refused admin key issues no backend
\* call at all (so removes nothing) and is answered at once, with 403 when the
\* backend client exists and with the fixed 500 of an unconfigured backend,
\* which the handler tests first, when it does not.
C1_RefusedKey ==
  \A r \in Handlers :
    (r.route = DeleteRoute /\ KeyRefused(r.header)) =>
      /\ r.pc = "done" /\ r.sent = 1
      /\ r.calls = <<>> /\ ~Removals(r)
      /\ r.status = IF supabase THEN 403 ELSE 500
      /\ r.reply = IF supabase THEN "Forbidden" ELSE "Database not configured"

C1_Witness ==
  /\ last.route = DeleteRoute /\ last.header = <<"guess">>
  /\ env.ADMIN_API_KEY = Secret
  /\ last.status = 403 /\ last.id \in ArtIds /\ artworks[last.id].present

\* --- C2 -------------------------------------------------------------------
LacksField(body) == body.title = Undefined \/ body.price = Undefined

\* C2 as stated: a creation request whose body lacks title or price is
\* answered 400 and issues no insert.
C2_AsClaimed ==
  \A r \in Handlers :
    (r.route = PostArtworkRoute /\ LacksField(r.body)) =>
      r.pc = "done" /\ r.status = 400 /\ ~Called(r, "artworks.insert")

\* C2, amended: a creation request whose body lacks title or price issues no
\* backend call (no insert) and is answered 400 when the backend client exists,
\* and the fixed 500 of an unconfigured backend when it does not.
C2_MissingField ==
  \A r \in Handlers :
    (r.route = PostArtworkRoute /\ LacksField(r.body)) =>
      /\ r.pc = "done" /\ r.sent = 1
      /\ r.calls = <<>>
      /\ r.status = IF supabase THEN 400 ELSE 500
      /\ r.reply = IF supabase THEN "title and price required"
                   ELSE "Cloud database not configured"

C2_Witness ==
  /\ last.route = PostArtworkRoute
  /\ last.body.title = Undefined /\ last.body.price = <<"10">>
  /\ last.status = 400

\* --- C3 -------------------------------------------------------------------
\* The image_url parses as a URL whose pathname holds
\* /object/public/artworks/ followed by something.
HasBucketPath(image_url) ==
  LET u == ParseURL(OrEmpty(image_url))
  IN u.ok /\ \E i \in 1..Len(u.pathname) :
               MatchAt(u.pathname, Bucket, i) /\ i + Len(Bucket) <= Len(u.pathname)

\* The delete handler has passed the admin key and found the row.
FoundRow(r) ==
  /\ r.route = DeleteRoute
  /\ r.pc \in {"remove", "delete"} \/ Called(r, "artworks.delete")

\* C3: a delete with the right key of an existing row whose image_url does not
\* parse or does not hold the storage pattern makes no storage removal call,
\* issues the row delete, and when that delete succeeds the row is gone and
\* the answer is 200 { ok: true }.
C3_SkipsStorage ==
  \A r \in Handlers :
    (FoundRow(r) /\ ~HasBucketPath(r.image_url)) =>
      /\ ~Called(r, "storage.remove") /\ r.pc /= "remove"
      /\ Terminated(r) => Called(r, "artworks.delete")
      /\ (Called(r, "artworks.delete") /\ LastOutcome(r) = "ok") =>
           /\ r.pc = "done" /\ r.status = 200 /\ r.reply = "ok" /\ r.sent = 1
           /\ ~artworks[r.id].present

C3_Witness ==
  /\ last.route = DeleteRoute /\ last.status = 200
  /\ last.image_url /= Undefined /\ ParseURL(last.image_url).ok
  /\ ~HasBucketPath(last.image_url)
  /\ ~artworks[last.id].present
  /\ storage = {<<"a1.png">>, <<"a2.png">>, <<"u1", "/", "a2.png">>}

\* --- C4 -------------------------------------------------------------------
\* C4 as stated: two consecutive, non-overlapping like requests of one user for
\* one artwork, the first arriving with no like row, answer liked: true and
\* then liked: false, and leave no like row and the counter where it was.
C4_TogglePair ==
  last.pair.is =>
    /\ last.pair.first = "liked:true" /\ last.reply = "liked:false"
    /\ ~last.likedAfter
    /\ last.likesAfter = last.pair.likes

\* --- C5 -------------------------------------------------------------------
\* C5 as stated: with a null client handle every backend-dependent route
\* answers an error and calls no backend.
C5_AsClaimed ==
  (booted /\ ~supabase) =>
    \A r \in Handlers : r.pc = "done" /\ r.status >= 400 /\ r.calls = <<>>

FixedStatus(route) == IF route = GetArtworksRoute THEN 200 ELSE 500

FixedReply(route) ==
  CASE route = GetArtworksRoute -> "[]"
    [] route = PostArtworkRoute -> "Cloud database not configured"
    [] OTHER -> "Database not configured"

\* C5, amended: when the credentials are missing or invalid the client handle
\* is null in every state after module load, and every backend-dependent route
\* answers at once with a fixed response and no backend call: 200 [] for
\* GET /api/artworks, the fixed 500 error for each of the other routes.
C5_Degraded ==
  (booted /\ ~isValidSupabase(SUPABASE_URL, SUPABASE_SERVICE_ROLE_KEY)) =>
    /\ ~supabase
    /\ \A r \in Handlers :
         /\ r.pc = "done" /\ r.sent = 1 /\ r.calls = <<>>
         /\ r.status = FixedStatus(r.route) /\ r.reply = FixedReply(r.route)

C5_Witness ==
  /\ booted /\ ~supabase
  /\ last.route = LikeRoute /\ last.header = <<"Bearer ", "t1">>
  /\ last.status = 500

\* --- C6 -------------------------------------------------------------------
\* C6: GET /api/artworks with a null client handle answers 200 and an empty
\* array.
C6_EmptyList ==
  \A r \in Handlers :
    (r.route = GetArtworksRoute /\ ~supabase) =>
      r.pc = "done" /\ r.sent = 1 /\ r.status = 200 /\ r.reply = "[]"

C6_Witness ==
  /\ last.route = GetArtworksRoute /\ ~supabase
  /\ last.status = 200 /\ last.reply = "[]"
  /\ \E a \in ArtIds : artworks[a].present

\* --- C7 -------------------------------------------------------------------
\* C7 as stated: every handler that has ended has answered its request exactly
\* once (no rejection left it unanswered), and answered 503 when a backend
\* call it awaited last threw.
C7_AnsweredOnce ==
  last.route /= "none" =>
    /\ last.pc = "done" /\ last.sent = 1
    /\ (last.calls /= <<>> /\ LastOutcome(last) = "throw") => last.status = 503

\* --- C8 -------------------------------------------------------------------
AuthRoutes == {PutProfileRoute, LikeRoute}

\* No Authorization header, one that does not start with "Bearer ", or a token
\* the auth service has answered with a rejection.
Rejected(r) ==
  \/ r.header = Undefined
  \/ ~(Len(r.header) >= 1 /\ r.header[1] = "Bearer ")
  \/ /\ Called(r, "auth.getUser")
     /\ r.calls[1].outcome /= "throw"
     /\ r.calls[1].outcome = "error" \/ TokenUser(Tail(r.header)) = "none"

Writes(r) ==
  \/ Called(r, "profiles.upsert")
  \/ Called(r, "artwork_likes.insert") \/ Called(r, "artwork_likes.delete")
  \/ Called(r, "rpc.increment_likes") \/ Called(r, "rpc.decrement_likes")

\* C8: on a configured backend a profile update or like request with a missing,
\* non-Bearer or rejected credential is answered 401 and writes nothing, and a
\* profile upsert writes only the row of the user the token belongs to.
C8_AuthGate ==
  supabase =>
    \A r \in Handlers :
      r.route \in AuthRoutes =>
        /\ Rejected(r) => r.pc = "done" /\ r.sent = 1 /\ r.status = 401 /\ ~Writes(r)
        /\ Writes(r) => r.user \in Users /\ r.user = TokenUser(Tail(r.header))
        /\ r.wrote /= "none" =>
             /\ r.wrote = TokenUser(Tail(r.header))
             /\ profiles[r.wrote].present

C8_Witness ==
  /\ supabase
  /\ last.route = PutProfileRoute /\ last.header = <<"Bearer ", "bad">>
  /\ last.status = 401 /\ Called(last, "auth.getUser")

\* --- C9 -------------------------------------------------------------------
\* The gate as the claim words it: each string is tested for a placeholder on
\* its own.
ClaimedUsable(url, key) ==
  /\ url /= <<>> /\ key /= <<>>
  /\ ParseURL(url).ok /\ ParseURL(url).protocol \in {"http", "https"}
  /\ ~HasPlaceholder(url) /\ ~HasPlaceholder(key)

\* C9 as stated: the client is created exactly when both strings are non-empty,
\* the URL parses with scheme http or https, and neither string on its own
\* matches a placeholder.
C9_GateAsClaimed ==
  booted => (supabase <=> ClaimedUsable(SUPABASE_URL, SUPABASE_SERVICE_ROLE_KEY))

\* --- C10 ------------------------------------------------------------------
\* C10 as stated: the likes counter of every artwork is never negative.
C10_LikesNonNegative == \A a \in ArtIds : artworks[a].likes >= 0

\* --- C12 ------------------------------------------------------------------
\* The capture of the leftmost /object/public/artworks/(.+)$ in the pathname
\* of image_url.
CapturedPath(image_url, path) ==
  LET p == ParseURL(OrEmpty(image_url)).pathname
  IN \E i \in 1..Len(p) :
       /\ MatchAt(p, Bucket, i)
       /\ \A j \in 1..(i - 1) : ~MatchAt(p, Bucket, j)
       /\ path = SubSeq(p, i + Len(Bucket), Len(p))

\* C12: a delete of an existing row (the handler has read its image_url)
\* whose image_url holds the storage pattern
\* calls the storage removal of exactly the captured path before the row
\* delete, and issues the row delete whatever the removal returned or threw.
C12_RemovalThenDelete ==
  \A r \in Handlers :
    (r.route = DeleteRoute /\ HasBucketPath(r.image_url)) =>
      /\ CapturedPath(r.image_url, r.path)
      /\ r.pc = "remove" => ~Removals(r)
      /\ r.pc /= "remove" =>
           /\ Len(r.calls) >= 2 /\ r.calls[2].name = "storage.remove"
           /\ \A k \in 1..Len(r.calls) :
                r.calls[k].name = "artworks.delete" => k = 3
      /\ Terminated(r) =>
           Len(r.calls) = 3 /\ r.calls[3].name = "artworks.delete"

\* Both divergent states at once: the last delete lost its storage removal to
\* an exception and removed the row, leaving the object; an earlier delete
\* removed the object of the other artwork and failed to delete its row.
C12_Witness ==
  /\ last.route = DeleteRoute /\ last.status = 200
  /\ HasBucketPath(last.image_url)
  /\ Len(last.calls) = 3 /\ last.calls[2].outcome = "throw"
  /\ ~artworks[last.id].present /\ last.path \in storage
  /\ \E a \in ArtIds \ {last.id} :
       /\ artworks[a].present
       /\ HasBucketPath(artworks[a].image_url)
       /\ StoragePath(artworks[a].image_url) \notin storage

\* --- C13 ------------------------------------------------------------------
RowsOf(a) == {l \in artwork_likes : l.artwork_id = a}

\* C13 as stated: once every like request has ended, each artwork's counter
\* equals the number of its like rows, and the liked value of the last answer
\* says whether that user's like row existed when it was answered.
C13_CounterMatchesRows ==
  DOMAIN requests = {} =>
    /\ \A a \in ArtIds :
         artworks[a].present => artworks[a].likes = Cardinality(RowsOf(a))
    /\ (last.route = LikeRoute /\ last.status = 200) =>
         (last.reply = "liked:true" <=> last.likedAfter)

\* --- C11 ------------------------------------------------------------------
IsPrefix(a, b) == Len(a) <= Len(b) /\ SubSeq(b, 1, Len(a)) = a

Thrower(listeners) == \E k \in 1..Len(listeners) : listeners[k].throws

\* C11 as stated: every run of the auth-event callback invokes each callback
\* subscribed before it exactly once, in the order of subscription.
C11_AsClaimed == round.is => round.invoked = round.before

\* C11: in every run of the auth-event callback the callbacks subscribed
\* before it are invoked once each in the order of subscription, up to and
\* including the first one that throws (all of them when none throws); and
\* every step leaves the list of callbacks as it was or longer at its end.
C11_NotifiesInOrder ==
  /\ [](round.is =>
          /\ IsPrefix(round.invoked, round.before)
          /\ ~Thrower(round.before) => round.invoked = round.before
          /\ \A k \in 1..Len(round.invoked) :
               round.invoked[k].throws => k = Len(round.invoked)
          /\ Thrower(round.before) => Thrower(round.invoked))
  /\ [][IsPrefix(authStateListeners, authStateListeners')]_vars

C11_Witness ==
  /\ round.is
  /\ Len(round.before) = 2 /\ ~Thrower(round.before)
  /\ Len(round.invoked) = 2
  /\ round.invoked[1].id = 1 /\ round.invoked[2].id = 2

\* --- C14 ------------------------------------------------------------------
\* C14 as stated: whatever calls of initSupabase overlap, at most one client
\* is created and at most one auth callback is registered.
C14_SingleClient == clients <= 1 /\ callbacks <= 1

\* --- C15 ------------------------------------------------------------------
\* C15 as stated: with no async function of the page in flight, the
\* currentUser entry is present exactly when the auth state the backend
\* reported last carries a session.
C15_CacheFollowsBackend ==
  (DOMAIN tasks = {} /\ reported /= "nothing") =>
    (localStorage /= Absent <=> reported /= "none")

====
